---- MODULE Spec2Model ----
(***************************************************************************)
(* A model of lib/part-theme.js: the ::part / ::theme emulation.           *)
(*                                                                         *)
(* Strings of the program (selectors, part names, attribute values,        *)
(* custom property names) are sequences of one-character strings, so that  *)
(* the regular expressions and the string operations of the source are     *)
(* modelled by what they do to the characters.                             *)
(***************************************************************************)
EXTENDS Integers, Sequences, FiniteSets, TLC

(***************************************************************************)
(* Characters and runs of characters.                                      *)
(***************************************************************************)

\* a const of the source: the value e under the name that Body gives it
With(e, Body(_)) == Body(e)

\* Characters that a string of this module cannot hold as they are stand
\* under their escape: each of these is one character of a program string.
VT == "\\v"
OtherSpaces ==
  {"\\u00A0", "\\uFEFF", "\\u2028", "\\u2029", "\\u1680", "\\u2000",
   "\\u2001", "\\u2002", "\\u2003", "\\u2004", "\\u2005", "\\u2006",
   "\\u2007", "\\u2008", "\\u2009", "\\u200A", "\\u202F", "\\u205F",
   "\\u3000"}

\* the white space of the host's selector parser
CssWhitespace == {" ", "\t", "\n", "\r", "\f"}

\* \s of the regular expressions, and what String.prototype.trim strips
Whitespace == CssWhitespace \cup {VT} \cup OtherSpaces

\* the complement of the class [^\s>~+] of selectorSeqRe
CombinatorChars == Whitespace \cup {">", "~", "+"}

\* the characters that end a compound selector for the host's parser
CssCombinatorChars == CssWhitespace \cup {">", "~", "+"}

\* the complement of the class [^.#:[] of constSelectorRe
NameStopChars == {".", "#", ":", "["}

\* characters of a CSS identifier
IdentChars ==
  {"a","b","c","d","e","f","g","h","i","j","k","l","m","n","o","p","q","r",
   "s","t","u","v","w","x","y","z","-","_","0","1","2","3","4","5","6","7",
   "8","9"}

\* number of consecutive characters of s, from position i on, that are not in X
RunLenNotIn(s, i, X) ==
  CHOOSE n \in 0..(IF i > Len(s) THEN 0 ELSE Len(s) - i + 1) :
    /\ \A k \in 0..(n-1) : s[i+k] \notin X
    /\ (i + n > Len(s) \/ s[i+n] \in X)

\* number of consecutive characters of s, from position i on, that are in X
RunLenIn(s, i, X) ==
  CHOOSE n \in 0..(IF i > Len(s) THEN 0 ELSE Len(s) - i + 1) :
    /\ \A k \in 0..(n-1) : s[i+k] \in X
    /\ (i + n > Len(s) \/ s[i+n] \notin X)

\* s without its leading and trailing characters of W
TrimOf(s, W) ==
  LET lead == RunLenIn(s, 1, W)
      last == IF lead = Len(s) THEN 0
              ELSE CHOOSE j \in 1..Len(s) :
                     /\ s[j] \notin W
                     /\ \A k \in (j+1)..Len(s) : s[k] \in W
  IN  IF last = 0 THEN <<>> ELSE SubSeq(s, lead + 1, last)

\* String.prototype.trim
Trim(s) == TrimOf(s, Whitespace)

(***************************************************************************)
(* The selector matching primitive of the host, Element.matches: a         *)
(* selector is one complex selector (compounds joined by combinators).     *)
(* The outcome is "true", "false" or "SyntaxError" (matches throws on a    *)
(* string that is no selector, the empty string included).  A character    *)
(* that is white space for \s but not for the selector parser (the         *)
(* vertical tab) is no part of a selector.                                 *)
(*                                                                         *)
(* A node is [tag, id, classes, attrs, pseudo]; matching is against a      *)
(* chain of nodes: the element first, then its ancestors inside the same   *)
(* tree, nearest first.                                                    *)
(***************************************************************************)

\* the first character of the attribute operators ^= $= *= |= ~=
AttrOperators == {"^", "$", "*", "|", "~"}

\* the value a of an attribute matches the value v under the operator op
AttrValueMatches(op, a, v) ==
  CASE op = "^" -> Len(v) <= Len(a) /\ SubSeq(a, 1, Len(v)) = v
    [] op = "$" -> Len(v) <= Len(a) /\ SubSeq(a, Len(a) - Len(v) + 1, Len(a)) = v
    [] op = "*" -> \E i \in 1..(Len(a) - Len(v) + 1) : SubSeq(a, i, i + Len(v) - 1) = v
    [] op = "|" -> \/ a = v
                   \/ Len(v) < Len(a) /\ SubSeq(a, 1, Len(v) + 1) = v \o <<"-">>
    [] OTHER -> \E i \in 1..(Len(a) - Len(v) + 1) :
                  /\ SubSeq(a, i, i + Len(v) - 1) = v
                  /\ (i = 1 \/ a[i-1] \in CssWhitespace)
                  /\ (i + Len(v) > Len(a) \/ a[i + Len(v)] \in CssWhitespace)

KnownPseudoClasses == { <<"h","o","v","e","r">>, <<"f","o","c","u","s">> }
KnownPseudoElements == { <<"b","e","f","o","r","e">> }

NoSimple == [len |-> 0, k |-> "none", n |-> <<>>, v |-> <<>>]
BadSimple == [len |-> -1, k |-> "bad", n |-> <<>>, v |-> <<>>]

\* the simple selector of s that starts at position i (len 0: the compound
\* ends here; len -1: no selector can continue here)
SimpleAt(s, i, atStart) ==
  IF i > Len(s) \/ s[i] \in CssCombinatorChars THEN NoSimple
  ELSE LET c == s[i] IN
    IF c = "*" THEN
      IF atStart THEN [len |-> 1, k |-> "univ", n |-> <<>>, v |-> <<>>]
      ELSE BadSimple
    ELSE IF c \in IdentChars THEN
      IF atStart
      THEN LET n == RunLenIn(s, i, IdentChars)
           IN  [len |-> n, k |-> "type", n |-> SubSeq(s, i, i+n-1), v |-> <<>>]
      ELSE BadSimple
    ELSE IF c \in {".", "#"} THEN
      LET n == RunLenIn(s, i+1, IdentChars)
      IN  IF n = 0 THEN BadSimple
          ELSE [len |-> n + 1, k |-> (IF c = "." THEN "class" ELSE "id"),
                n |-> SubSeq(s, i+1, i+n), v |-> <<>>]
    ELSE IF c = ":" THEN
      LET elem == (i + 1 <= Len(s) /\ s[i+1] = ":")
          from == IF elem THEN i + 2 ELSE i + 1
          n == RunLenIn(s, from, IdentChars)
          name == SubSeq(s, from, from + n - 1)
      IN  IF n = 0 THEN BadSimple
          ELSE IF elem
          THEN IF name \in KnownPseudoElements
               THEN [len |-> n + 2, k |-> "pelem", n |-> name, v |-> <<>>]
               ELSE BadSimple
          ELSE IF name \in KnownPseudoClasses
               THEN [len |-> n + 1, k |-> "pclass", n |-> name, v |-> <<>>]
               ELSE BadSimple
    ELSE IF c = "[" THEN
      LET n == RunLenIn(s, i+1, IdentChars)
          j == i + 1 + n
      IN  IF n = 0 \/ j > Len(s) THEN BadSimple
          ELSE IF s[j] = "]"
          THEN [len |-> n + 2, k |-> "attr", n |-> SubSeq(s, i+1, i+n), v |-> <<>>]
          ELSE IF s[j] = "="
          THEN LET m == RunLenIn(s, j+1, IdentChars)
               IN  IF m = 0 \/ j + m + 1 > Len(s) \/ s[j+m+1] # "]" THEN BadSimple
                   ELSE [len |-> n + m + 3, k |-> "attreq",
                         n |-> SubSeq(s, i+1, i+n), v |-> SubSeq(s, j+1, j+m)]
          ELSE IF s[j] \in AttrOperators /\ j + 1 <= Len(s) /\ s[j+1] = "="
          THEN LET m == RunLenIn(s, j+2, IdentChars)
               IN  IF m = 0 \/ j + m + 2 > Len(s) \/ s[j+m+2] # "]" THEN BadSimple
                   ELSE [len |-> n + m + 4, k |-> s[j],
                         n |-> SubSeq(s, i+1, i+n), v |-> SubSeq(s, j+2, j+m+1)]
          ELSE BadSimple
    ELSE BadSimple

\* the compound selector of s that starts at position i:
\* [ok, next, comps], next the position after it
RECURSIVE CompoundAt(_, _, _)
CompoundAt(s, i, comps) ==
  With(SimpleAt(s, i, comps = <<>>), LAMBDA x :
    IF x.len = -1 THEN [ok |-> FALSE, next |-> i, comps |-> comps]
    ELSE IF x.len = 0 THEN [ok |-> comps # <<>>, next |-> i, comps |-> comps]
    ELSE CompoundAt(s, i + x.len, Append(comps, x)))

\* the complex selector s from position i on, after the compounds `items`:
\* [ok, items], an item [comb, comps], comb the combinator to its left
RECURSIVE ComplexAt(_, _, _, _)
ComplexAt(s, i, comb, items) ==
  With(CompoundAt(s, i, <<>>), LAMBDA c :
    IF ~c.ok THEN [ok |-> FALSE, items |-> items]
    ELSE
      With(Append(items, [comb |-> comb, comps |-> c.comps]), LAMBDA got :
      With(RunLenIn(s, c.next, CssWhitespace), LAMBDA ws :
      With(c.next + ws, LAMBDA j :
        IF j > Len(s) THEN [ok |-> ws = 0, items |-> got]
        ELSE IF s[j] \in {">", "~", "+"}
        THEN ComplexAt(s, j + 1 + RunLenIn(s, j+1, CssWhitespace), s[j], got)
        ELSE ComplexAt(s, j, " ", got)))))

MatchSimple(node, x) ==
  CASE x.k = "univ" -> TRUE
    [] x.k = "type" -> node.tag = x.n
    [] x.k = "class" -> x.n \in node.classes
    [] x.k = "id" -> node.id = x.n
    [] x.k = "attr" -> \E a \in node.attrs : a[1] = x.n
    [] x.k = "attreq" -> <<x.n, x.v>> \in node.attrs
    [] x.k = "pclass" -> x.n \in node.pseudo
    [] x.k \in AttrOperators ->
         \E a \in node.attrs : a[1] = x.n /\ AttrValueMatches(x.k, a[2], x.v)
    [] OTHER -> FALSE

MatchCompound(node, comps) ==
  \A k \in 1..Len(comps) : MatchSimple(node, comps[k])

\* compound k of items matches chain[j], and the compounds to its left match
\* nodes further up the chain as their combinators ask (the nodes of the
\* model have no element siblings, so + and ~ find nothing)
RECURSIVE MatchFrom(_, _, _, _)
MatchFrom(items, k, chain, j) ==
  /\ MatchCompound(chain[j], items[k].comps)
  /\ \/ k = 1
     \/ /\ items[k].comb = ">"
        /\ j + 1 <= Len(chain)
        /\ MatchFrom(items, k - 1, chain, j + 1)
     \/ /\ items[k].comb = " "
        /\ \E j2 \in (j+1)..Len(chain) : MatchFrom(items, k - 1, chain, j2)

\* Element.matches(selector) for the element at the head of chain
Matches(chain, selector) ==
  With(TrimOf(selector, CssWhitespace), LAMBDA s :
  With(ComplexAt(s, 1, "none", <<>>), LAMBDA p :
    IF s = <<>> \/ ~p.ok THEN "SyntaxError"
    ELSE IF MatchFrom(p.items, Len(p.items), chain, 1) THEN "true"
    ELSE "false"))

(***************************************************************************)
(* The selector match pre-filter.                                          *)
(*                                                                         *)
(* hints: [constClasses, constAttributes], the static getters of the       *)
(* element's class; each is [kind, b, list] with kind "undefined",         *)
(* "boolean" (value b) or "array" (the names in list).                     *)
(***************************************************************************)

Undefined == [kind |-> "undefined", b |-> FALSE, list |-> {}]
Bool(b) == [kind |-> "boolean", b |-> b, list |-> {}]
Array(l) == [kind |-> "array", b |-> FALSE, list |-> l]

NoMatch == [len |-> 0, prefix |-> <<>>, name |-> <<>>, attributeName |-> <<>>]

\* the match of constSelectorRe in q at position i (len 0: none):
\*   (?:(\.|:|::)([^.#:[]+))|(?:\[([^=]+)(?:=[^\]]+)?\])
constSelectorRe(q, i) ==
  LET c == q[i] IN
  IF c = "." THEN
    LET n == RunLenNotIn(q, i+1, NameStopChars)
    IN  IF n = 0 THEN NoMatch
        ELSE [len |-> n + 1, prefix |-> <<".">>, name |-> SubSeq(q, i+1, i+n),
              attributeName |-> <<>>]
  ELSE IF c = ":" THEN
    LET n1 == RunLenNotIn(q, i+1, NameStopChars)
        n2 == RunLenNotIn(q, i+2, NameStopChars)
    IN  IF n1 > 0
        THEN [len |-> n1 + 1, prefix |-> <<":">>, name |-> SubSeq(q, i+1, i+n1),
              attributeName |-> <<>>]
        ELSE IF i + 1 <= Len(q) /\ q[i+1] = ":" /\ n2 > 0
        THEN [len |-> n2 + 2, prefix |-> <<":", ":">>,
              name |-> SubSeq(q, i+2, i+1+n2), attributeName |-> <<>>]
        ELSE NoMatch
  ELSE IF c = "[" THEN
    LET maxk == RunLenNotIn(q, i+1, {"="})
        e == i + 1 + maxk     \* the position of the "=", or past the end
        v == RunLenNotIn(q, e+1, {"]"})
        shorter == {k \in 1..(maxk-1) : q[i+1+k] = "]"}
    IN  IF maxk > 0 /\ e <= Len(q) /\ v > 0 /\ e + v + 1 <= Len(q)
        THEN [len |-> maxk + v + 3, prefix |-> <<>>, name |-> <<>>,
              attributeName |-> SubSeq(q, i+1, i+maxk)]
        ELSE IF shorter # {}
        THEN LET k == CHOOSE x \in shorter : \A y \in shorter : y <= x
             IN  [len |-> k + 2, prefix |-> <<>>, name |-> <<>>,
                  attributeName |-> SubSeq(q, i+1, i+k)]
        ELSE NoMatch
  ELSE NoMatch

\* a value of constClasses / constAttributes is truthy
Truthy(h) == h.kind = "array" \/ (h.kind = "boolean" /\ h.b)

\* prefix === '.' && constClasses &&
\*   (typeof constClasses === 'boolean' || constClasses.indexOf(name) !== -1)
constClassTest(hints, m) ==
  /\ m.prefix = <<".">>
  /\ Truthy(hints.constClasses)
  /\ \/ hints.constClasses.kind = "boolean"
     \/ m.name \in hints.constClasses.list

\* attributeName && constAttributes && constAttributes.indexOf(attributeName) !== -1:
\* "true", "false", or "TypeError" (true has no method indexOf)
constAttributeTest(hints, m) ==
  IF m.attributeName = <<>> \/ ~Truthy(hints.constAttributes) THEN "false"
  ELSE IF hints.constAttributes.kind = "boolean" THEN "TypeError"
  ELSE IF m.attributeName \in hints.constAttributes.list THEN "true"
  ELSE "false"

\* keepConstSelector with the test of isLast left out
keepConstSelectorAnywhere(hints, isLast, m) ==
  IF constClassTest(hints, m) THEN "keep"
  ELSE With(constAttributeTest(hints, m), LAMBDA a :
         IF a = "TypeError" THEN a ELSE IF a = "true" THEN "keep" ELSE "remove")

\* the callback of sequence.replace(constSelectorRe, ...): "keep" when it
\* returns the match m, "remove" when it returns '', "TypeError" when it throws
keepConstSelector(hints, isLast, m) ==
  IF ~isLast THEN "remove"
  ELSE IF constClassTest(hints, m) THEN "keep"
  ELSE With(constAttributeTest(hints, m), LAMBDA a :
         IF a = "TypeError" THEN a ELSE IF a = "true" THEN "keep" ELSE "remove")

\* the text a replace has written, followed by what the rest of it yields:
\* [ex, val], ex the exception a callback threw ("none" when none did)
Written(text, rest) ==
  IF rest.ex # "none" THEN rest ELSE [ex |-> "none", val |-> text \o rest.val]

\* sequence.replace(constSelectorRe, callback) from position i on: [ex, val]
RECURSIVE replaceConstSelector(_, _, _, _)
replaceConstSelector(hints, sequence, isLast, i) ==
  IF i > Len(sequence) THEN [ex |-> "none", val |-> <<>>]
  ELSE With(constSelectorRe(sequence, i), LAMBDA m :
    IF m.len = 0
    THEN Written(<<sequence[i]>>,
                 replaceConstSelector(hints, sequence, isLast, i + 1))
    ELSE With(keepConstSelector(hints, isLast, m), LAMBDA keep :
      IF keep = "TypeError" THEN [ex |-> keep, val |-> <<>>]
      ELSE Written(IF keep = "keep" THEN SubSeq(sequence, i, i + m.len - 1)
                   ELSE <<>>,
                   replaceConstSelector(hints, sequence, isLast, i + m.len))))

\* selector.replace(selectorSeqRe, callback) from position i on:
\*   /([^\s>~+]+$)|(?:[^\s>~+]+)/g
\* a match is a maximal run of non-combinator characters, and its group 1
\* (isLast) is set when the run ends the string
RECURSIVE selectorSeqRe(_, _, _)
selectorSeqRe(hints, selector, i) ==
  IF i > Len(selector) THEN [ex |-> "none", val |-> <<>>]
  ELSE With(RunLenNotIn(selector, i, CombinatorChars), LAMBDA n :
    IF n = 0
    THEN Written(<<selector[i]>>, selectorSeqRe(hints, selector, i + 1))
    ELSE With(replaceConstSelector(hints, SubSeq(selector, i, i+n-1),
                                   i + n - 1 = Len(selector), 1), LAMBDA seq :
      IF seq.ex # "none" THEN seq
      ELSE Written(seq.val, selectorSeqRe(hints, selector, i + n))))

\* the selector isMatchingPossible hands to element.matches: [ex, val]
constSelector(hints, selector) == selectorSeqRe(hints, selector, 1)

\* isMatchingPossible(element, selector): "true", "false", or the exception
\* it throws, "TypeError" (the callback) or "SyntaxError" (element.matches)
isMatchingPossible(chain, hints, selector) ==
  With(constSelector(hints, selector), LAMBDA c :
    IF c.ex # "none" THEN c.ex ELSE Matches(chain, c.val))

(***************************************************************************)
(* The program state.                                                      *)
(*                                                                         *)
(* dom is the tree the host runtime gives the program; the program never   *)
(* changes it:                                                             *)
(*   host[e]      getRootNode().host || getRootNode() of e (e itself when  *)
(*                e is the top of its tree)                                *)
(*   shadow[e]    e.shadowRoot is set                                      *)
(*   partmap[e]   e.getAttribute('partmap') (<<>> when absent)             *)
(*   chain[e]     e and its ancestors inside its tree, for Element.matches *)
(*   hints[e]     e.constructor.constClasses / constAttributes             *)
(*   partNodes[e] the part attributes of the nodes of e's shadow tree that *)
(*                carry one, in document order                             *)
(*   nested[e]    the elements without a shadowRoot that are inside the    *)
(*                tree under e.shadowRoot || e, in document order: their   *)
(*                children are nodes of that tree                          *)
(***************************************************************************)
VARIABLES
  dom,
  partData,       \* element[partDataKey]: undefined, null or the declarations
  partIdOf,       \* element[partIdKey]
  partId,         \* the module's counter partId
  styles,         \* the style elements that are children of e.shadowRoot || e
  lastApplyTime,  \* this._lastApplyTime
  rafQueue,       \* requestAnimationFrame callbacks waiting for the next frame
  frameCbs,       \* callbacks of the running frame that have not run yet
  time,           \* the time token of the running (or last) frame
  scans,          \* history: how often initializeParts ran for e
  idFirst,        \* history: what the first partIdForElement(e) returned
  idLast,         \* history: what the latest partIdForElement(e) returned
  forwards,       \* history: the forwarded resolutions of the latest call
  frameSignals,   \* history: callbacks of e taken by the running frame
  frameApplied,   \* history: applyPartTheme(e) calls made in the running frame
  applied,        \* history: applyPartTheme(e) was called
  call,           \* the latest call of the resolution engine and its outcome
  mIn,            \* the pre-filter's input
  mOut            \* the pre-filter's outcome

vars == <<dom, partData, partIdOf, partId, styles, lastApplyTime, rafQueue,
          frameCbs, time, scans, idFirst, idLast, forwards, frameSignals,
          frameApplied, applied, call, mIn, mOut>>

Elems == {"doc", "e1", "e2", "e3"}

\* the elements that are instances of a PartThemeMixin class
MixinElems == {"e2", "e3"}

\* values of element[partDataKey]
Unset == [kind |-> "undefined", parts |-> <<>>]
Null == [kind |-> "null", parts |-> <<>>]
Parts(ps) == [kind |-> "array", parts |-> ps]

\* values of element[partIdKey] and of this._lastApplyTime
NoNum == [has |-> FALSE, v |-> 0]
Num(n) == [has |-> TRUE, v |-> n]

\* a properties object {bucket: {property: value}}, or undefined
UndefProps == [def |-> FALSE, map |-> <<>>]
Props(m) == [def |-> TRUE, map |-> m]

\* the part of the state the functions of the module read and write
Cur ==
  [partData |-> partData, partIdOf |-> partIdOf, partId |-> partId,
   styles |-> styles, scans |-> scans, idFirst |-> idFirst,
   idLast |-> idLast, forwards |-> forwards]

Install(st) ==
  /\ partData' = st.partData
  /\ partIdOf' = st.partIdOf
  /\ partId' = st.partId
  /\ styles' = st.styles
  /\ scans' = st.scans
  /\ idFirst' = st.idFirst
  /\ idLast' = st.idLast
  /\ forwards' = st.forwards

Container(element) == dom.host[element]

(***************************************************************************)
(* Scope ids and custom property names.                                    *)
(***************************************************************************)

\* partIdForElement with the test !element[partIdKey] in place of == undefined
partIdForElementFalsy(st, element) ==
  LET s1 == IF ~st.partIdOf[element].has \/ st.partIdOf[element].v = 0
            THEN [st EXCEPT !.partIdOf[element] = Num(st.partId),
                            !.partId = st.partId + 1]
            ELSE st
      id == s1.partIdOf[element].v
  IN  [st |-> [s1 EXCEPT !.idFirst[element] = IF @.has THEN @ ELSE Num(id),
                         !.idLast[element] = Num(id)],
       val |-> id]

\* partIdForElement(element): [st, val]
partIdForElement(st, element) ==
  LET s1 == IF ~st.partIdOf[element].has
            THEN [st EXCEPT !.partIdOf[element] = Num(st.partId),
                            !.partId = st.partId + 1]
            ELSE st
      id == s1.partIdOf[element].v
  IN  [st |-> [s1 EXCEPT !.idFirst[element] = IF @.has THEN @ ELSE Num(id),
                         !.idLast[element] = Num(id)],
       val |-> id]

DigitChars == <<"0","1","2","3","4","5","6","7","8","9">>

\* the decimal digits of n, as the template literal writes a number
RECURSIVE Digits(_)
Digits(n) ==
  IF n < 10 THEN <<DigitChars[n + 1]>>
  ELSE Digits(n \div 10) \o <<DigitChars[(n % 10) + 1]>>

\* endSelector.replace(/\:/g, '')
StripColons(s) == SelectSeq(s, LAMBDA c : c # ":")

\* varForPart(id, name, prop, endSelector)
varForPart(id, name, prop, endSelector) ==
  <<"-","-","e">> \o Digits(id) \o <<"-","p","a","r","t","-">> \o name
    \o <<"-">> \o prop
    \o (IF endSelector # <<>> THEN <<"-">> \o StripColons(endSelector) ELSE <<>>)

\* `var(${varForPart(id, name, p, part.endSelector)})`
VarRef(id, name, prop, endSelector) ==
  <<"v","a","r","(">> \o varForPart(id, name, prop, endSelector) \o <<")">>

(***************************************************************************)
(* The transformer and the part declaration cache.  The text of a style    *)
(* element is held as the list of its rules: a rule of kind "part" or      *)
(* "theme" is one match of cssRe (selector, name, endSelector and the      *)
(* parsed declarations props), any other rule is text cssRe does not       *)
(* match.                                                                  *)
(***************************************************************************)

\* the replacement text of one match: `\n${selector || '*'} {\n\t${partProps}\n}`
CustomRule(rule, id) ==
  [kind |-> "custom",
   selector |-> IF rule.selector = <<>> THEN <<"*">> ELSE rule.selector,
   name |-> rule.name, endSelector |-> rule.endSelector,
   props |-> [p \in DOMAIN rule.props |->
                <<varForPart(id, rule.name, p, rule.endSelector), rule.props[p]>>]]

\* partCssToCustomPropCss(element, cssText) over the rules from k on:
\* [st, parts, css], parts = [def, seq]
RECURSIVE partCssToCustomPropCss(_, _, _, _, _, _)
partCssToCustomPropCss(st, element, cssText, k, parts, css) ==
  IF k > Len(cssText) THEN [st |-> st, parts |-> parts, css |-> css]
  ELSE With(cssText[k], LAMBDA rule :
    IF rule.kind \in {"part", "theme"}
    THEN With(partIdForElement(st, element), LAMBDA i :
         With([selector |-> rule.selector, endSelector |-> rule.endSelector,
               name |-> rule.name, props |-> rule.props,
               isTheme |-> rule.kind = "theme"], LAMBDA part :
           partCssToCustomPropCss(i.st, element, cssText, k + 1,
             [def |-> TRUE, seq |-> Append(parts.seq, part)],
             Append(css, CustomRule(rule, i.val)))))
    ELSE partCssToCustomPropCss(st, element, cssText, k + 1, parts,
                                Append(css, rule)))

\* the style elements of styles[e] from k on that were (gen) or were not
\* appended by applyPartTheme, as references [owner, k]
RECURSIVE OwnRefs(_, _, _, _)
OwnRefs(st, e, gen, k) ==
  IF k > Len(st.styles[e]) THEN <<>>
  ELSE (IF st.styles[e][k].gen = gen THEN <<[owner |-> e, k |-> k]>> ELSE <<>>)
       \o OwnRefs(st, e, gen, k + 1)

\* root.querySelectorAll('style') for root = e.shadowRoot || e: the style
\* elements of the tree under root in document order, as references
\* [owner, k] to styles[owner][k].  The tree holds the children of root and
\* the trees under the elements of dom.nested[e]; a style element that
\* applyPartTheme appended to root comes after all of them.
RECURSIVE StyleRefs(_, _)
RECURSIVE NestedRefs(_, _, _)
NestedRefs(st, e, n) ==
  IF n > Len(dom.nested[e]) THEN <<>>
  ELSE StyleRefs(st, dom.nested[e][n]) \o NestedRefs(st, e, n + 1)

StyleRefs(st, e) ==
  OwnRefs(st, e, FALSE, 1) \o NestedRefs(st, e, 1) \o OwnRefs(st, e, TRUE, 1)

\* the forEach of initializeParts over the style elements refs from k on
RECURSIVE initializeStyles(_, _, _, _)
initializeStyles(st, element, refs, k) ==
  IF k > Len(refs) THEN st
  ELSE With(partCssToCustomPropCss(st, element,
                                   st.styles[refs[k].owner][refs[k].k].rules,
                                   1, [def |-> FALSE, seq |-> <<>>], <<>>),
            LAMBDA info :
         IF info.parts.def
         THEN initializeStyles(
                [info.st EXCEPT
                   !.partData[element] =
                      Parts((IF @.kind = "array" THEN @.parts ELSE <<>>)
                            \o info.parts.seq),
                   !.styles[refs[k].owner][refs[k].k].rules = info.css],
                element, refs, k + 1)
         ELSE initializeStyles(st, element, refs, k + 1))

\* initializeParts(element)
initializeParts(st, element) ==
  With(initializeStyles(st, element, StyleRefs(st, element), 1), LAMBDA s1 :
    [s1 EXCEPT !.partData[element] = IF @.kind = "undefined" THEN Null ELSE @,
               !.scans[element] = @ + 1])

\* ensurePartData with the test !element[partDataKey] in place of hasOwnProperty
ensurePartDataTruthy(st, element) ==
  IF st.partData[element].kind # "array"
  THEN initializeParts(st, element)
  ELSE st

\* ensurePartData(element)
ensurePartData(st, element) ==
  IF st.partData[element].kind = "undefined"
  THEN initializeParts(st, element)
  ELSE st

\* partDataForElement(element): [st, val]
partDataForElement(st, element) ==
  With(ensurePartData(st, element), LAMBDA s1 :
    [st |-> s1, val |-> s1.partData[element]])

(***************************************************************************)
(* The attribute grammars.                                                 *)
(***************************************************************************)

\* s.split(c) from position i on, piece being the characters read so far
RECURSIVE SplitFrom(_, _, _, _)
SplitFrom(s, c, i, piece) ==
  IF i > Len(s) THEN <<piece>>
  ELSE IF s[i] = c THEN <<piece>> \o SplitFrom(s, c, i + 1, <<>>)
  ELSE SplitFrom(s, c, i + 1, Append(piece, s[i]))

\* attr ? attr.split(',') : []
Pieces(attr) == IF attr = <<>> THEN <<>> ELSE SplitFrom(attr, ",", 1, <<>>)

\* undefined or null where the program expects a string; no string of
\* characters equals it
NoString == <<"undefined">>

\* the map of partInfoFromAttr over the pieces from k on
RECURSIVE partInfoFromNames(_, _)
partInfoFromNames(pieces, k) ==
  IF k > Len(pieces) THEN <<>>
  ELSE <<[name |-> Trim(pieces[k]), forward |-> NoString]>>
       \o partInfoFromNames(pieces, k + 1)

\* partInfoFromAttr(attr)
partInfoFromAttr(attr) == partInfoFromNames(Pieces(attr), 1)

\* p ? p.match(/\s*([^\s]+)(?:\s+([^\s]+))?\s*/) : []  as [matched, m1, m2]
PartmapMatch(p) ==
  IF p = <<>> THEN [matched |-> TRUE, m1 |-> NoString, m2 |-> NoString]
  ELSE
    LET ws1 == RunLenIn(p, 1, Whitespace)
        n1 == RunLenNotIn(p, ws1 + 1, Whitespace)
        ws2 == RunLenIn(p, ws1 + n1 + 1, Whitespace)
        n2 == RunLenNotIn(p, ws1 + n1 + ws2 + 1, Whitespace)
    IN  IF n1 = 0 THEN [matched |-> FALSE, m1 |-> NoString, m2 |-> NoString]
        ELSE [matched |-> TRUE,
              m1 |-> SubSeq(p, ws1 + 1, ws1 + n1),
              m2 |-> IF ws2 > 0 /\ n2 > 0
                     THEN SubSeq(p, ws1 + n1 + ws2 + 1, ws1 + n1 + ws2 + n2)
                     ELSE NoString]

\* the entry partInfoFromPartmap pushes for a match: {name: m[2] || m[1], forward: m[1]}
PartmapEntry(m) ==
  [name |-> IF m.m2 # NoString THEN m.m2 ELSE m.m1, forward |-> m.m1]

\* partInfoFromPartmap(attr)
RECURSIVE partInfoFromPieces(_, _)
partInfoFromPieces(pieces, k) ==
  IF k > Len(pieces) THEN <<>>
  ELSE LET m == PartmapMatch(pieces[k])
       IN  (IF m.matched THEN <<PartmapEntry(m)>> ELSE <<>>)
           \o partInfoFromPieces(pieces, k + 1)

partInfoFromPartmap(attr) == partInfoFromPieces(Pieces(attr), 1)

(***************************************************************************)
(* The resolution engine.  A call returns [st, ex, val]: the state it      *)
(* leaves, the exception it throws ("none" when it returns) and its value. *)
(***************************************************************************)

\* Object.assign(target, source)
ObjectAssign(target, source) ==
  [p \in DOMAIN target \cup DOMAIN source |->
     IF p \in DOMAIN source THEN source[p] ELSE target[p]]

\* mixPartProps(a, b)
mixPartProps(a, b) ==
  IF a.def /\ b.def
  THEN Props([i \in DOMAIN a.map \cup DOMAIN b.map |->
                IF i \in DOMAIN b.map
                THEN ObjectAssign(IF i \in DOMAIN a.map THEN a.map[i] ELSE <<>>,
                                  b.map[i])
                ELSE a.map[i]])
  ELSE IF a.def THEN a ELSE b

\* addPartProps(props, part, id, name)
addPartProps(props, part, id, name) ==
  LET base == IF props.def THEN props.map ELSE <<>>
      bucket == part.endSelector
      b == [p \in DOMAIN part.props |-> VarRef(id, name, p, part.endSelector)]
  IN  Props([k \in DOMAIN base \cup {bucket} |->
               IF k = bucket
               THEN ObjectAssign(IF bucket \in DOMAIN base THEN base[bucket]
                                 ELSE <<>>, b)
               ELSE base[k]])

\* the test of propsFromElement's loop without (!requireTheme || part.isTheme)
partQualifiesAny(part, name, requireTheme) == part.name = name

\* the first two conjuncts of the test of propsFromElement's loop
partQualifies(part, name, requireTheme) ==
  part.name = name /\ (~requireTheme \/ part.isTheme)

\* the forEach of propsFromElement over the declarations from k on: [ex, val]
RECURSIVE propsFromParts(_, _, _, _, _, _, _)
propsFromParts(parts, k, name, id, element, requireTheme, props) ==
  IF k > Len(parts) THEN [ex |-> "none", val |-> props]
  ELSE With(parts[k], LAMBDA part :
    IF partQualifies(part, name, requireTheme)
    THEN With(isMatchingPossible(dom.chain[element], dom.hints[element],
                                 part.selector), LAMBDA m :
           IF m \notin {"true", "false"} THEN [ex |-> m, val |-> UndefProps]
           ELSE propsFromParts(parts, k + 1, name, id, element, requireTheme,
                  IF m = "true" THEN addPartProps(props, part, id, name)
                  ELSE props))
    ELSE propsFromParts(parts, k + 1, name, id, element, requireTheme, props))

\* propsFromElement(name, container, element, requireTheme)
propsFromElement(st, name, container, element, requireTheme) ==
  With(partDataForElement(st, container), LAMBDA d :
    IF d.val.kind # "array" THEN [st |-> d.st, ex |-> "none", val |-> UndefProps]
    ELSE With(partIdForElement(d.st, container), LAMBDA i :
         With(propsFromParts(d.val.parts, 1, name, i.val, element,
                             requireTheme, UndefProps), LAMBDA r :
           [st |-> i.st, ex |-> r.ex, val |-> r.val])))

\* the attribute of the container in place of the element's
containerPartmap(element, container) == dom.partmap[container]

\* the attribute propsForPart parses for forwarding:
\* element.getAttribute('partmap')
forwardingPartmap(element, container) == dom.partmap[element]

\* info.forward && (info.forward.indexOf('*') >= 0)
catchAll(info) ==
  /\ info.forward # NoString
  /\ \E k \in 1..Len(info.forward) : info.forward[k] = "*"

\* the grave accent, under its escape
Grave == "\\u0060"

\* the text String.prototype.replace writes for the replacement string t,
\* from position i of t on: $$ is "$", $& the matched text, "$" and a grave
\* accent the text before the match and $' the text after it; any other
\* character, a "$" before another character included, stands for itself
\* (the pattern is a string, so there are no groups for $1.. or $<name> to
\* refer to)
RECURSIVE GetSubstitution(_, _, _, _, _)
GetSubstitution(matched, before, after, t, i) ==
  IF i > Len(t) THEN <<>>
  ELSE IF t[i] = "$" /\ i < Len(t) /\ t[i+1] \in {"$", "&", Grave, "'"}
  THEN (CASE t[i+1] = "$" -> <<"$">>
          [] t[i+1] = "&" -> matched
          [] t[i+1] = Grave -> before
          [] OTHER -> after)
       \o GetSubstitution(matched, before, after, t, i + 2)
  ELSE <<t[i]>> \o GetSubstitution(matched, before, after, t, i + 1)

\* s.replace('*', t): the first "*" of s replaced by what the replacement
\* string t stands for
ReplaceStar(s, t) ==
  IF \E k \in 1..Len(s) : s[k] = "*"
  THEN LET i == CHOOSE k \in 1..Len(s) :
                  s[k] = "*" /\ \A j \in 1..(k-1) : s[j] # "*"
       IN  SubSeq(s, 1, i - 1)
           \o GetSubstitution(<<"*">>, SubSeq(s, 1, i - 1),
                               SubSeq(s, i + 1, Len(s)), t, 1)
           \o SubSeq(s, i + 1, Len(s))
  ELSE s

\* catchAll ? info.name.replace('*', name) : info.name
ancestorNameFor(info, name) ==
  IF catchAll(info) THEN ReplaceStar(info.name, name) ELSE info.name

\* propsForPart(name, element, requireTheme), and its forEach over the
\* entries of the partmap from k on
RECURSIVE propsForPart(_, _, _, _)
RECURSIVE propsForwarded(_, _, _, _, _, _, _)

propsForwarded(st, name, element, container, partInfo, k, props) ==
  IF k > Len(partInfo) THEN [st |-> st, ex |-> "none", val |-> props]
  ELSE With(partInfo[k], LAMBDA info :
    IF name = info.forward \/ catchAll(info)
    THEN With(ancestorNameFor(info, name), LAMBDA ancestorName :
         With(propsForPart(
                [st EXCEPT !.forwards =
                   Append(@, [element |-> element, name |-> name,
                              ancestorName |-> ancestorName,
                              container |-> container])],
                ancestorName, container, FALSE), LAMBDA forwarded :
           IF forwarded.ex # "none" THEN forwarded
           ELSE propsForwarded(forwarded.st, name, element, container,
                  partInfo, k + 1, mixPartProps(props, forwarded.val))))
    ELSE propsForwarded(st, name, element, container, partInfo, k + 1, props))

propsForPart(st, name, element, requireTheme) ==
  With(Container(element), LAMBDA container :
    IF container = element THEN [st |-> st, ex |-> "none", val |-> UndefProps]
    ELSE With(propsFromElement(st, name, container, element, requireTheme),
              LAMBDA own :
      IF own.ex # "none" THEN own
      ELSE With(propsForPart(own.st, name, container, TRUE), LAMBDA themeProps :
        IF themeProps.ex # "none" THEN themeProps
        ELSE With(mixPartProps(own.val, themeProps.val), LAMBDA props :
          IF requireTheme
          THEN [st |-> themeProps.st, ex |-> "none", val |-> props]
          ELSE propsForwarded(themeProps.st, name, element, container,
                 partInfoFromPartmap(forwardingPartmap(element, container)),
                 1, props)))))

(***************************************************************************)
(* The style injector.  The text of a generated style element is held as   *)
(* the list of the rules ruleForPartInfo writes, one entry per part name   *)
(* that resolved to properties.                                            *)
(***************************************************************************)

\* ruleForPartInfo(partInfo, attr, element) over the entries from k on
RECURSIVE ruleForPartInfo(_, _, _, _, _, _)
ruleForPartInfo(st, partInfo, attr, element, k, text) ==
  IF k > Len(partInfo) THEN [st |-> st, ex |-> "none", val |-> text]
  ELSE With(partInfo[k], LAMBDA info :
    IF info.forward = NoString
    THEN With(propsForPart([st EXCEPT !.forwards = <<>>], info.name,
                           element, FALSE), LAMBDA props :
           IF props.ex # "none" THEN [st |-> props.st, ex |-> props.ex, val |-> text]
           ELSE ruleForPartInfo(props.st, partInfo, attr, element, k + 1,
                  IF props.val.def
                  THEN Append(text, [kind |-> "generated", attr |-> attr,
                                     name |-> info.name, props |-> props.val.map])
                  ELSE text))
    ELSE ruleForPartInfo(st, partInfo, attr, element, k + 1, text))

\* the loop of cssForElementDom over the part nodes from k on; css holds one
\* entry per part node (its `\n\t${rule}`)
RECURSIVE cssForPartNodes(_, _, _, _)
cssForPartNodes(st, element, k, css) ==
  IF k > Len(dom.partNodes[element]) THEN [st |-> st, ex |-> "none", val |-> css]
  ELSE With(dom.partNodes[element][k], LAMBDA attr :
       With(ruleForPartInfo(st, partInfoFromAttr(attr), attr, element, 1, <<>>),
            LAMBDA rule :
         IF rule.ex # "none" THEN [st |-> rule.st, ex |-> rule.ex, val |-> css]
         ELSE cssForPartNodes(rule.st, element, k + 1, Append(css, rule.val))))

\* cssForElementDom(element); reading element.shadowRoot.querySelectorAll
\* throws a TypeError when the element has no shadowRoot
cssForElementDom(st, element) ==
  With(partIdForElement(ensurePartData(st, element), element), LAMBDA i :
    IF ~dom.shadow[element] THEN [st |-> i.st, ex |-> "TypeError", val |-> <<>>]
    ELSE cssForPartNodes(i.st, element, 1, <<>>))

\* the sequence s without its element k
RemoveAt(s, k) == SubSeq(s, 1, k - 1) \o SubSeq(s, k + 1, Len(s))

\* applyPartTheme without the removal of the old style element
keepOldStyle(st, element) == st

\* root.querySelector('style[parts]'): the marker-tagged style elements of
\* the tree under root, in document order
MarkedRefs(st, element) ==
  SelectSeq(StyleRefs(st, element),
            LAMBDA ref : st.styles[ref.owner][ref.k].parts)

\* the first lines of applyPartTheme: root.querySelector('style[parts]') is
\* removed from its parent
removeOldStyle(st, element) ==
  With(MarkedRefs(st, element), LAMBDA marked :
    IF marked = <<>> THEN st
    ELSE [st EXCEPT !.styles[marked[1].owner] = RemoveAt(@, marked[1].k)])

\* history: the style elements refs from k on are older than the call
RECURSIVE MarkRefs(_, _, _)
MarkRefs(st, refs, k) ==
  IF k > Len(refs) THEN st
  ELSE MarkRefs([st EXCEPT !.styles[refs[k].owner][refs[k].k].stale = TRUE],
                refs, k + 1)

\* history: the style elements a call finds under root are older than it
MarkStale(st, element) == MarkRefs(st, StyleRefs(st, element), 1)

\* applyPartTheme(element): [st, ex]
applyPartTheme(st, element) ==
  With(removeOldStyle(MarkStale(st, element), element), LAMBDA s1 :
    IF Container(element) = element THEN [st |-> s1, ex |-> "none"]
    ELSE With(cssForElementDom(ensurePartData(s1, Container(element)), element),
              LAMBDA css :
      IF css.ex # "none" THEN [st |-> css.st, ex |-> css.ex]
      ELSE IF css.val # <<>>
      THEN [st |-> [css.st EXCEPT !.styles[element] =
                      Append(@, [parts |-> TRUE, stale |-> FALSE,
                                 gen |-> TRUE, rules |-> css.val])],
            ex |-> "none"]
      ELSE [st |-> css.st, ex |-> "none"]))

(***************************************************************************)
(* The mixin: lifecycle callbacks and the animation frame.                 *)
(***************************************************************************)

MaxQueue == 3
MaxFrames == 3

\* _queueApplyPartTheme(): requestAnimationFrame((time) => this._applyPartTheme(time))
queueApplyPartTheme(element) ==
  /\ Len(rafQueue) < MaxQueue
  /\ rafQueue' = Append(rafQueue, element)
  /\ UNCHANGED <<dom, partData, partIdOf, partId, styles, lastApplyTime,
                 frameCbs, time, scans, idFirst, idLast, forwards,
                 frameSignals, frameApplied, applied, call, mIn, mOut>>

\* connectedCallback()
connectedCallback(element) == queueApplyPartTheme(element)

\* attributeChangedCallback(name, oldValue, newValue)
attributeChangedCallback(element) == queueApplyPartTheme(element)

Count(q, element) == Cardinality({k \in 1..Len(q) : q[k] = element})

Bump(n) == IF n < 2 THEN n + 1 ELSE n

\* the host starts a frame: the callbacks queued so far will run, each with
\* the frame's time token, after every token of an earlier frame
FrameStart ==
  /\ frameCbs = <<>>
  /\ rafQueue # <<>>
  /\ time < MaxFrames
  /\ time' = time + 1
  /\ frameCbs' = rafQueue
  /\ rafQueue' = <<>>
  /\ frameSignals' = [e \in Elems |-> Count(rafQueue, e)]
  /\ frameApplied' = [e \in Elems |-> 0]
  /\ UNCHANGED <<dom, partData, partIdOf, partId, styles, lastApplyTime, scans,
                 idFirst, idLast, forwards, applied, call, mIn, mOut>>

\* _applyPartTheme without the comparison of the time tokens
isNewTimeAlways(element, t) == TRUE

\* time !== this._lastApplyTime
isNewTime(element, t) == lastApplyTime[element] # Num(t)

\* the host runs the next callback of the frame: _applyPartTheme(time)
RunCallback ==
  /\ frameCbs # <<>>
  /\ LET element == Head(frameCbs) IN
       IF isNewTime(element, time)
       THEN /\ lastApplyTime' = [lastApplyTime EXCEPT ![element] = Num(time)]
            /\ Install(applyPartTheme(Cur, element).st)
            /\ frameApplied' = [frameApplied EXCEPT ![element] = @ + 1]
            /\ applied' = [applied EXCEPT ![element] = Bump(@)]
       ELSE UNCHANGED <<lastApplyTime, partData, partIdOf, partId, styles,
                        scans, idFirst, idLast, forwards, frameApplied, applied>>
  /\ frameCbs' = Tail(frameCbs)
  /\ UNCHANGED <<dom, rafQueue, time, frameSignals, call, mIn, mOut>>

(***************************************************************************)
(* Calls of the module's functions.                                        *)
(***************************************************************************)

CallPartIdForElement(element) ==
  /\ Install(partIdForElement(Cur, element).st)
  /\ UNCHANGED <<dom, lastApplyTime, rafQueue, frameCbs, time, frameSignals,
                 frameApplied, applied, call, mIn, mOut>>

CallEnsurePartData(element) ==
  /\ Install(ensurePartData(Cur, element))
  /\ UNCHANGED <<dom, lastApplyTime, rafQueue, frameCbs, time, frameSignals,
                 frameApplied, applied, call, mIn, mOut>>

CallPartDataForElement(element) ==
  /\ Install(partDataForElement(Cur, element).st)
  /\ UNCHANGED <<dom, lastApplyTime, rafQueue, frameCbs, time, frameSignals,
                 frameApplied, applied, call, mIn, mOut>>

CallApplyPartTheme(element) ==
  /\ Install(applyPartTheme(Cur, element).st)
  /\ applied' = [applied EXCEPT ![element] = Bump(@)]
  /\ UNCHANGED <<dom, lastApplyTime, rafQueue, frameCbs, time, frameSignals,
                 frameApplied, call, mIn, mOut>>

NoCall ==
  [made |-> FALSE, name |-> <<>>, element |-> "doc", requireTheme |-> FALSE,
   ex |-> "none", val |-> UndefProps]

CallPropsForPart(name, element, requireTheme) ==
  With(propsForPart([Cur EXCEPT !.forwards = <<>>], name, element, requireTheme),
       LAMBDA r :
    /\ Install(r.st)
    /\ call' = [made |-> TRUE, name |-> name, element |-> element,
                requireTheme |-> requireTheme, ex |-> r.ex, val |-> r.val]
    /\ UNCHANGED <<dom, lastApplyTime, rafQueue, frameCbs, time, frameSignals,
                   frameApplied, applied, mIn, mOut>>)

NoMatchOutput == [done |-> FALSE, handed |-> <<>>, result |-> "none"]

\* isMatchingPossible(element, selector) is called on the input; handed is
\* the argument it gives element.matches (when it gets that far)
CallIsMatchingPossible ==
  /\ ~mOut.done
  /\ mOut' = [done |-> TRUE,
              handed |-> constSelector(mIn.hints, mIn.text).val,
              result |-> isMatchingPossible(mIn.chain, mIn.hints, mIn.text)]
  /\ UNCHANGED <<dom, partData, partIdOf, partId, styles, lastApplyTime,
                 rafQueue, frameCbs, time, scans, idFirst, idLast, forwards,
                 frameSignals, frameApplied, applied, call, mIn>>

(***************************************************************************)
(* Inputs of the pre-filter: selectors written as clusters of components,  *)
(* joined by combinators, and the text they stand for.                     *)
(***************************************************************************)

sA == <<"a">>
sB == <<"b">>
sX == <<"x">>
sY == <<"y">>
sDiv == <<"d","i","v">>
sHover == <<"h","o","v","e","r">>
sBefore == <<"b","e","f","o","r","e">>

cType(n) == [k |-> "type", n |-> n, v |-> <<>>, text |-> n]
cUniv == [k |-> "univ", n |-> <<>>, v |-> <<>>, text |-> <<"*">>]
cId(n) == [k |-> "id", n |-> n, v |-> <<>>, text |-> <<"#">> \o n]
cClass(n) == [k |-> "class", n |-> n, v |-> <<>>, text |-> <<".">> \o n]
cPClass(n) == [k |-> "pclass", n |-> n, v |-> <<>>, text |-> <<":">> \o n]
cPElem(n) == [k |-> "pelem", n |-> n, v |-> <<>>, text |-> <<":", ":">> \o n]
cAttr(n) == [k |-> "attr", n |-> n, v |-> <<>>, text |-> <<"[">> \o n \o <<"]">>]
cAttrEq(n, v) ==
  [k |-> "attreq", n |-> n, v |-> v, text |-> <<"[">> \o n \o <<"=">> \o v \o <<"]">>]

\* [n op= v]
cAttrOp(n, op, v) ==
  [k |-> "attrop", n |-> n, v |-> v,
   text |-> <<"[">> \o n \o <<op, "=">> \o v \o <<"]">>]

ClusterPool ==
  { <<cClass(sA)>>,
    <<cType(sDiv), cClass(sB)>>,
    <<cUniv>>,
    <<cClass(sA), cPClass(sHover)>>,
    <<cAttr(sX), cClass(sB)>>,
    <<cId(sA), cClass(sA), cAttrEq(sY, sA)>>,
    <<cAttr(sX), cClass(sA), cAttr(sY)>>,
    <<cType(sDiv), cAttr(sY), cAttrEq(sX, sB)>>,
    <<cClass(sA), cAttrOp(sX, "^", sB)>>,
    <<cAttr(sY), cAttrOp(sX, "|", sB), cPElem(sBefore)>> }

CombinatorPool == { <<" ">>, <<">">> }

\* what may follow the last cluster
TrailPool == { <<>>, <<"\r">>, <<VT>> }

MaxClusters == 2

RECURSIVE ClusterSeqs(_)
ClusterSeqs(n) ==
  IF n = 1 THEN { [clusters |-> <<c>>, combs |-> <<>>] : c \in ClusterPool }
  ELSE ClusterSeqs(n - 1) \cup
       { [clusters |-> Append(s.clusters, c), combs |-> Append(s.combs, b)] :
           s \in { t \in ClusterSeqs(n - 1) : Len(t.clusters) = n - 1 },
           c \in ClusterPool, b \in CombinatorPool }

RECURSIVE Concat(_, _)
\* the texts of the components (or parts) of q from k on, concatenated
Concat(q, k) == IF k > Len(q) THEN <<>> ELSE q[k].text \o Concat(q, k + 1)

RECURSIVE JoinClusters(_, _, _)
\* texts[k], combs[k], texts[k+1], ... of a selector
JoinClusters(texts, combs, k) ==
  IF k > Len(texts) THEN <<>>
  ELSE texts[k] \o (IF k <= Len(combs) THEN combs[k] ELSE <<>>)
       \o JoinClusters(texts, combs, k + 1)

\* the selector string a structured selector stands for
SelectorText(sel) ==
  JoinClusters([k \in 1..Len(sel.clusters) |-> Concat(sel.clusters[k], 1)],
               sel.combs, 1) \o sel.trail

NodeFull ==
  [tag |-> sDiv, id |-> sA, classes |-> {sA, sB},
   attrs |-> {<<sX, sB>>, <<sY, sA>>}, pseudo |-> {sHover}]
NodeA == [tag |-> sDiv, id |-> <<>>, classes |-> {sA}, attrs |-> {}, pseudo |-> {}]

ChainPool == { <<NodeFull, NodeFull>>, <<NodeFull>>, <<NodeA, NodeFull>> }

HintsPool ==
  { [constClasses |-> Undefined, constAttributes |-> Undefined],
    [constClasses |-> Bool(TRUE), constAttributes |-> Array({sX})],
    [constClasses |-> Array({sA}), constAttributes |-> Array({sY})],
    [constClasses |-> Array({sA}), constAttributes |-> Bool(TRUE)] }

MatchInputs ==
  { [sel |-> [clusters |-> s.clusters, combs |-> s.combs, trail |-> t],
     text |-> SelectorText([clusters |-> s.clusters, combs |-> s.combs, trail |-> t]),
     chain |-> c, hints |-> h] :
      s \in ClusterSeqs(MaxClusters), t \in TrailPool, c \in ChainPool,
      h \in HintsPool }

NoMatchInput ==
  [sel |-> [clusters |-> <<>>, combs |-> <<>>, trail |-> <<>>], text |-> <<>>,
   chain |-> <<NodeA>>, hints |-> [constClasses |-> Undefined,
                                   constAttributes |-> Undefined]]

(***************************************************************************)
(* Trees and style sheets.  The scopes nest doc > e1 > e2 > e3: e1 is in   *)
(* the document (or is the top of a detached tree), e2 is in e1's shadow   *)
(* tree and e3 in e2's, inside a div of class w.                           *)
(***************************************************************************)

sFoo == <<"f","o","o">>
sBar == <<"b","a","r">>
sBtnFoo == <<"b","t","n","-","f","o","o">>
sAmp == <<"a","$","&">>
sColor == <<"c","o","l","o","r">>
sFont == <<"f","o","n","t">>
sRed == <<"r","e","d">>
sW == <<"w">>
sStar == <<"*">>
sDotA == <<".","a">>
sColonHover == <<":","h","o","v","e","r">>
sTagE3 == <<"x","-","c">>
sDivChildE3 == <<"d","i","v",">","x","-","c">>

\* partmap attribute values
pmFooBtnFoo == <<"f","o","o"," ","b","t","n","-","f","o","o">>
pmStarBtnStar == <<"*"," ","b","t","n","-","*">>
pmBarFooThenFoo == <<"b","a","r"," ","f","o","o",","," ","f","o","o">>
pmBlankThenStar == <<" ",",",",","*","\r",VT,"b","t","n","-","*","\f">>

\* part attribute values
paFoo == <<"f","o","o">>
paFooBar == <<"f","o","o",","," ","b","a","r">>

PartRule(kind, selector, name, endSelector, props) ==
  [kind |-> kind, selector |-> selector, name |-> name,
   endSelector |-> endSelector, props |-> [p \in props |-> sRed]]

PlainRule ==
  [kind |-> "plain", selector |-> sDiv, name |-> <<>>, endSelector |-> <<>>,
   props |-> <<>>]

Style(rules) ==
  [parts |-> FALSE, stale |-> FALSE, gen |-> FALSE, rules |-> rules]

\* a style element that carries the parts marker before any call
MarkedStyle ==
  [parts |-> TRUE, stale |-> FALSE, gen |-> FALSE, rules |-> <<>>]

ShPlain == <<Style(<<PlainRule>>)>>
ShPart == <<Style(<<PartRule("part", sStar, sFoo, <<>>, {sColor})>>)>>
ShTheme ==
  <<Style(<<PlainRule, PartRule("theme", sStar, sFoo, <<>>, {sColor, sFont})>>)>>
ShMix ==
  <<Style(<<PartRule("part", sStar, sFoo, sColonHover, {sColor}),
            PartRule("theme", sStar, sBtnFoo, <<>>, {sColor})>>),
    Style(<<PartRule("part", sDotA, sBtnFoo, <<>>, {sFont}),
            PartRule("part", sStar, sFoo, <<>>, {sFont})>>)>>
ShSelectors ==
  <<Style(<<PartRule("part", sTagE3, sFoo, <<>>, {sColor}),
            PartRule("theme", sDivChildE3, sFoo, <<>>, {sFont}),
            PartRule("part", sDotA, sBar, <<>>, {sColor})>>)>>

Node(tag, classes) ==
  [tag |-> tag, id |-> <<>>, classes |-> classes, attrs |-> {}, pseudo |-> {}]

NoHints == [constClasses |-> Undefined, constAttributes |-> Undefined]
AllClassesConst == [constClasses |-> Bool(TRUE), constAttributes |-> Array({sX})]

\* the tree with e1 hosted by hostE1 ("doc", or "e1" when detached)
Tree(hostE1, shadowE3, pm, classes, hints, partNodesE3) ==
  [host |-> [e \in Elems |->
               CASE e = "doc" -> "doc" [] e = "e1" -> hostE1
                 [] e = "e2" -> "e1" [] OTHER -> "e2"],
   shadow |-> [e \in Elems |-> IF e = "e3" THEN shadowE3 ELSE e # "doc"],
   partmap |-> pm,
   chain |-> [e \in Elems |->
                CASE e = "doc" -> <<Node(<<"h","t","m","l">>, {})>>
                  [] e = "e1" -> <<Node(<<"x","-","a">>, classes["e1"])>>
                  [] e = "e2" -> <<Node(<<"x","-","b">>, classes["e2"])>>
                  [] OTHER -> <<Node(sTagE3, classes["e3"]), Node(sDiv, {sW})>>],
   hints |-> hints,
   partNodes |-> [e \in Elems |->
                    CASE e = "e3" -> partNodesE3
                      [] e = "e2" -> <<sBtnFoo>>
                      [] OTHER -> <<>>],
   nested |-> [e \in Elems |->
                 IF e = "e2" /\ ~shadowE3 THEN <<"e3">> ELSE <<>>]]

(***************************************************************************)
(* Initial states.                                                         *)
(***************************************************************************)

EmptyDom ==
  [host |-> [e \in Elems |-> e], shadow |-> [e \in Elems |-> FALSE],
   partmap |-> [e \in Elems |-> <<>>], chain |-> [e \in Elems |-> <<NodeA>>],
   hints |-> [e \in Elems |-> [constClasses |-> Undefined,
                               constAttributes |-> Undefined]],
   partNodes |-> [e \in Elems |-> <<>>],
   nested |-> [e \in Elems |-> <<>>]]

\* the state after the module is loaded, for the tree d with the style
\* elements sty, before any call
Loaded(d, sty) ==
  /\ dom = d
  /\ styles = sty
  /\ partData = [e \in Elems |-> Unset]
  /\ partIdOf = [e \in Elems |-> NoNum]
  /\ partId = 0
  /\ lastApplyTime = [e \in Elems |-> NoNum]
  /\ rafQueue = <<>>
  /\ frameCbs = <<>>
  /\ time = 0
  /\ scans = [e \in Elems |-> 0]
  /\ idFirst = [e \in Elems |-> NoNum]
  /\ idLast = [e \in Elems |-> NoNum]
  /\ forwards = <<>>
  /\ frameSignals = [e \in Elems |-> 0]
  /\ frameApplied = [e \in Elems |-> 0]
  /\ applied = [e \in Elems |-> 0]
  /\ call = NoCall

PartNames == {sFoo, sBtnFoo, sBar, sAmp}

\* the elements whose style block the calls of this specification generate
ApplyElems == {"e1", "e2", "e3"}

\* the trees of this specification: e1 in the document or the top of a
\* detached tree; e1 and e3 without a marker-tagged style element and e3
\* without part nodes, or e1 and e3 with a marker-tagged style element and
\* e3 with part nodes; and a tree where e3 has no shadowRoot (its style
\* elements, one with part rules and one with the marker, are then nodes of
\* e2's shadow tree)
TreePool ==
  { [hostE1 |-> h, shadowE3 |-> TRUE,
     hints |-> IF h = "doc" THEN NoHints ELSE AllClassesConst,
     partNodesE3 |-> x.nodes, marked |-> x.marked, sheetE3 |-> ShPlain] :
      h \in {"doc", "e1"},
      x \in { [nodes |-> <<>>, marked |-> <<>>],
              [nodes |-> <<paFooBar>>, marked |-> <<MarkedStyle>>] } }
  \cup
  { [hostE1 |-> "doc", shadowE3 |-> FALSE, hints |-> AllClassesConst,
     partNodesE3 |-> <<>>, marked |-> <<MarkedStyle>>, sheetE3 |-> ShSelectors] }

\* the cache, the scope ids and the style injector, called in any order
Init ==
  /\ \E t \in TreePool :
       Loaded(Tree(t.hostE1, t.shadowE3,
                   [e \in Elems |-> CASE e = "e3" -> pmStarBtnStar
                                      [] e = "e2" -> pmFooBtnFoo
                                      [] OTHER -> <<>>],
                   [e \in Elems |-> {sA}],
                   [e \in Elems |-> t.hints], t.partNodesE3),
              [e \in Elems |-> CASE e = "doc" -> ShTheme
                                 [] e = "e1" -> ShMix \o t.marked
                                 [] e = "e2" -> ShPart
                                 [] OTHER -> t.sheetE3 \o t.marked])
  /\ mIn = NoMatchInput
  /\ mOut = NoMatchOutput

Next ==
  \/ \E element \in Elems : CallPartIdForElement(element)
  \/ \E element \in Elems : CallEnsurePartData(element)
  \/ \E element \in Elems : CallPartDataForElement(element)
  \/ \E element \in ApplyElems : CallApplyPartTheme(element)
  \/ \E requireTheme \in BOOLEAN : CallPropsForPart(sFoo, "e3", requireTheme)

Spec == Init /\ [][Next]_vars

\* the lifecycle callbacks of the mixin and the animation frames
InitFrame ==
  /\ \E hints \in {NoHints, AllClassesConst} :
       Loaded(Tree("doc", TRUE,
                   [e \in Elems |-> IF e = "e3" THEN pmStarBtnStar ELSE <<>>],
                   [e \in Elems |-> {sA}],
                   [e \in Elems |-> hints], <<paFoo>>),
              [e \in Elems |-> CASE e = "doc" -> ShTheme [] e = "e1" -> ShMix
                                 [] e = "e2" -> ShPart [] OTHER -> ShPlain])
  /\ mIn = NoMatchInput
  /\ mOut = NoMatchOutput

NextFrame ==
  \/ \E element \in MixinElems : connectedCallback(element)
  \/ \E element \in MixinElems : attributeChangedCallback(element)
  \/ FrameStart
  \/ RunCallback

SpecFrame == InitFrame /\ [][NextFrame]_vars

\* the resolution engine on trees with any of the style sheets and partmaps
SheetPool == {ShPlain, ShPart, ShTheme, ShMix, ShSelectors}
PartmapPool ==
  {<<>>, pmFooBtnFoo, pmStarBtnStar, pmBarFooThenFoo, pmBlankThenStar}

InitResolve ==
  /\ \E shDoc \in {ShPlain, ShTheme}, shE1 \in SheetPool, shE2 \in SheetPool,
        pm3 \in PartmapPool, pm2 \in {<<>>, pmFooBtnFoo, pmStarBtnStar},
        h2 \in {NoHints, AllClassesConst}, h3 \in {NoHints, AllClassesConst},
        c2 \in {{}, {sA}} :
       Loaded(Tree("doc", TRUE,
                   [e \in Elems |-> CASE e = "e3" -> pm3 [] e = "e2" -> pm2
                                      [] OTHER -> <<>>],
                   [e \in Elems |-> IF e = "e2" THEN c2 ELSE {sA}],
                   [e \in Elems |-> CASE e = "e2" -> h2 [] e = "e3" -> h3
                                      [] OTHER -> NoHints],
                   <<paFoo>>),
              [e \in Elems |-> CASE e = "doc" -> shDoc [] e = "e1" -> shE1
                                 [] e = "e2" -> shE2 [] OTHER -> ShPlain])
  /\ mIn = NoMatchInput
  /\ mOut = NoMatchOutput

\* one call on each tree, made right after the module is loaded
NextResolve ==
  \E name \in PartNames, element \in Elems, requireTheme \in BOOLEAN :
    ~call.made /\ CallPropsForPart(name, element, requireTheme)

SpecResolve == InitResolve /\ [][NextResolve]_vars

InitMatch ==
  /\ Loaded(EmptyDom, [e \in Elems |-> <<>>])
  /\ mIn \in MatchInputs
  /\ mOut = NoMatchOutput

NextMatch == CallIsMatchingPossible

SpecMatch == InitMatch /\ [][NextMatch]_vars

(***************************************************************************)
(* The pre-filter's claims.                                                *)
(***************************************************************************)

MinOf(S) == CHOOSE x \in S : \A y \in S : x <= y
MaxOf(S) == CHOOSE x \in S : \A y \in S : y <= x

\* The parts constSelectorRe divides a cluster into, from component t on: a
\* class, a pseudo or an attribute part, or a component it leaves alone
\* ("other": a type, universal or id selector).  An attribute component
\* written without a value takes in what follows it in the cluster, through
\* the next component with a "=" or, when there is none, through the last
\* valueless attribute component; the "attribute name" of an attribute part
\* is all the text between its first bracket and its first "=" (the
\* operator character of [n^=v] included) or, without "=", its last bracket.
RECURSIVE ClusterParts(_, _)
ClusterParts(cluster, t) ==
  IF t > Len(cluster) THEN <<>>
  ELSE LET c == cluster[t] IN
    IF c.k = "attr"
    THEN LET valued == {u \in (t+1)..Len(cluster) :
                          cluster[u].k \in {"attreq", "attrop"}}
             plain == {u \in t..Len(cluster) : cluster[u].k = "attr"}
             last == IF valued # {} THEN MinOf(valued) ELSE MaxOf(plain)
             text == Concat(SubSeq(cluster, t, last), 1)
             name == IF valued # {}
                     THEN SubSeq(text, 2, Len(text) - Len(cluster[last].v) - 2)
                     ELSE SubSeq(text, 2, Len(text) - 1)
         IN  <<[k |-> "attribute", name |-> name, text |-> text]>>
             \o ClusterParts(cluster, last + 1)
    ELSE <<[k |-> CASE c.k \in {"attreq", "attrop"} -> "attribute"
                    [] c.k = "class" -> "class"
                    [] c.k \in {"pclass", "pelem"} -> "pseudo"
                    [] OTHER -> "other",
            name |-> IF c.k \in {"attreq", "attrop"}
                     THEN SubSeq(c.text, 2, Len(c.text) - Len(c.v) - 2)
                     ELSE c.n,
            text |-> c.text]>>
         \o ClusterParts(cluster, t + 1)

\* name is listed in the constant classes (every name is, when they are the
\* value true)
ConstClass(hints, name) ==
  \/ hints.constClasses.kind = "boolean" /\ hints.constClasses.b
  \/ hints.constClasses.kind = "array" /\ name \in hints.constClasses.list

\* name is listed in the constant attributes (a list)
ConstAttribute(hints, name) ==
  hints.constAttributes.kind = "array" /\ name \in hints.constAttributes.list

\* cluster k of sel is the last one: it ends the selector string
EndsSelector(sel, k) == k = Len(sel.clusters) /\ sel.trail = <<>>

\* the selector with the parts (or components) of its clusters filtered by Keep
Filtered(sel, Parts_(_), Keep(_, _)) ==
  JoinClusters(
    [k \in 1..Len(sel.clusters) |->
       Concat(SelectSeq(Parts_(sel.clusters[k]),
                        LAMBDA part : Keep(part, EndsSelector(sel, k))), 1)],
    sel.combs, 1) \o sel.trail

\* the rule of the claim as stated: removed are, in the last cluster only,
\* the class and pseudo components named in the constant classes and the
\* attribute components named in the constant attributes
StatedKeep(part, isLast) ==
  ~ /\ isLast
    /\ \/ part.k \in {"class", "pclass", "pelem"} /\ ConstClass(mIn.hints, part.n)
       \/ /\ part.k \in {"attr", "attreq", "attrop"}
          /\ ConstAttribute(mIn.hints, part.n)

Components(cluster) == cluster

\* C9 as stated: the selector handed to the matcher is the declared selector
\* without the constant class, pseudo and attribute components of its last
\* cluster, everything else unchanged.
C9_StatedRule ==
  mOut.done =>
    /\ mOut.result # "TypeError"
    /\ mOut.handed = Filtered(mIn.sel, Components, StatedKeep)

\* the rule of the code: kept are the parts constSelectorRe does not match,
\* and in the last cluster the class parts named in the constant classes and
\* the attribute parts named in the constant attributes
CodeKeep(part, isLast) ==
  \/ part.k = "other"
  \/ /\ isLast
     /\ \/ part.k = "class" /\ ConstClass(mIn.hints, part.name)
        \/ part.k = "attribute" /\ ConstAttribute(mIn.hints, part.name)

PartsOf(cluster) == ClusterParts(cluster, 1)

\* the constant attributes are the value true, which is no list, and the
\* cluster that ends the selector holds an attribute part
AttributeTestThrows ==
  /\ mIn.hints.constAttributes = Bool(TRUE)
  /\ mIn.sel.trail = <<>>
  /\ \E i \in 1..Len(PartsOf(mIn.sel.clusters[Len(mIn.sel.clusters)])) :
       PartsOf(mIn.sel.clusters[Len(mIn.sel.clusters)])[i].k = "attribute"

\* C9 (amended): the selector handed to the matcher is the declared selector
\* without every class, pseudo and attribute part of every cluster, except,
\* in the cluster that ends the selector, the class parts named in the
\* constant classes (all class parts when constClasses is true) and the
\* attribute parts whose text between "[" and the first "=" (or, without
\* "=", the last "]") is in the constant attributes; type, universal and id
\* selectors and the combinators are left unchanged.  When the constant
\* attributes are the value true and the ending cluster holds an attribute
\* part, the pre-filter throws a TypeError and hands over nothing.
C9_PruningRule ==
  mOut.done =>
    IF AttributeTestThrows THEN mOut.result = "TypeError"
    ELSE /\ mOut.result # "TypeError"
         /\ mOut.handed = Filtered(mIn.sel, PartsOf, CodeKeep)

\* C9 witness: the pre-filter has pruned a selector of two clusters whose
\* last cluster holds a part it keeps as constant and a part it removes, and
\* whose first cluster holds a part it removes; the last cluster holds a
\* component [n^=v] for an attribute n of the constant attributes.
C9_Witness ==
  /\ mOut.done
  /\ Len(mIn.sel.clusters) = 2
  /\ mIn.sel.trail = <<>>
  /\ \E c \in 1..Len(mIn.sel.clusters[2]) :
       /\ mIn.sel.clusters[2][c].k = "attrop"
       /\ ConstAttribute(mIn.hints, mIn.sel.clusters[2][c].n)
  /\ \E i, j \in 1..Len(PartsOf(mIn.sel.clusters[2])) :
       /\ PartsOf(mIn.sel.clusters[2])[i].k # "other"
       /\ CodeKeep(PartsOf(mIn.sel.clusters[2])[i], TRUE)
       /\ ~CodeKeep(PartsOf(mIn.sel.clusters[2])[j], TRUE)
  /\ \E i \in 1..Len(PartsOf(mIn.sel.clusters[1])) :
       PartsOf(mIn.sel.clusters[1])[i].k # "other"
  /\ mOut.handed # mIn.text
  /\ mOut.result = "true"

\* C6 as stated: a node that matches the declared selector passes the
\* pre-filter: isMatchingPossible yields true, without a failure, also when
\* pruning leaves nothing or a bare universal selector.
C6_NoFalseNegative ==
  (mOut.done /\ Matches(mIn.chain, mIn.text) = "true") => mOut.result = "true"

(***************************************************************************)
(* The cache's and the scope ids' claims (specification Spec).             *)
(***************************************************************************)

\* C3: over any sequence of calls initializeParts runs at most once for each
\* scope element, and a scope found without ::part/::theme rules keeps the
\* cached null.
C3_TransformerOnce ==
  \A e \in Elems :
    /\ scans[e] <= 1
    /\ (partData[e].kind = "undefined") = (scans[e] = 0)

\* C3 witness: applyPartTheme(e3) has run twice, so that the data of e3
\* (cached as null) and of its container e2 (cached declarations) were
\* looked up again after their one scan.
C3_Witness ==
  /\ applied["e3"] = 2
  /\ scans["e3"] = 1 /\ partData["e3"] = Null
  /\ scans["e2"] = 1 /\ partData["e2"].kind = "array"

\* C4: every partIdForElement call for an element returns what the first
\* call for it returned, the element keeps that id, and no two elements
\* hold the same id; the counter is past every id given out.
C4_IdStableUnique ==
  /\ \A e \in Elems :
       /\ idLast[e] = idFirst[e]
       /\ partIdOf[e] = idFirst[e]
       /\ partIdOf[e].has => partIdOf[e].v < partId
  /\ \A e, f \in Elems :
       (e # f /\ partIdOf[e].has /\ partIdOf[f].has)
         => partIdOf[e].v # partIdOf[f].v

\* C4 witness: e3 was given the first id 0, other elements were given ids
\* after it, and applyPartTheme(e3) has asked for the id of e3 twice more.
C4_Witness ==
  /\ idFirst["e3"] = Num(0)
  /\ idLast["e3"] = Num(0)
  /\ applied["e3"] = 2
  /\ partId >= 3

\* the marker-tagged style elements of the rendering subtree of e
MarkerStyles(e) == MarkedRefs(Cur, e)

\* C8: after any sequence of applyPartTheme calls the subtree of a node
\* holds at most one marker-tagged style element, and none that is older
\* than the node's most recent call.
C8_StyleBlockReplaced ==
  \A e \in Elems :
    /\ Len(MarkerStyles(e)) <= 1
    /\ applied[e] >= 1 =>
         \A k \in 1..Len(MarkerStyles(e)) :
           ~styles[MarkerStyles(e)[k].owner][MarkerStyles(e)[k].k].stale

\* C8 witness: applyPartTheme has run twice on e3, each call generating a
\* style element, and e3 holds one marker-tagged style element, that of the
\* second call; e1, the top of its tree, was called too and holds none.
C8_Witness ==
  /\ applied["e3"] = 2
  /\ Len(styles["e3"]) = 2
  /\ MarkerStyles("e3") = <<[owner |-> "e3", k |-> 2]>>
  /\ styles["e3"][2].rules # <<>>
  /\ Container("e1") = "e1"
  /\ applied["e1"] >= 1
  /\ MarkerStyles("e1") = <<>>

(***************************************************************************)
(* The debounce claim (specification SpecFrame).                           *)
(***************************************************************************)

\* C5: the callbacks a node queued before a frame make exactly one
\* applyPartTheme call in that frame: never more than one, and one once all
\* of them have run.
C5_Debounce ==
  \A e \in MixinElems :
    /\ frameApplied[e] <= 1
    /\ (frameSignals[e] >= 1 /\ Count(frameCbs, e) = 0) => frameApplied[e] = 1

\* C5 witness: in the second frame a node had three callbacks, all have run
\* and applyPartTheme was called once.
C5_Witness ==
  \E e \in MixinElems :
    /\ time = 2
    /\ frameSignals[e] = 3
    /\ frameCbs = <<>>
    /\ frameApplied[e] = 1

(***************************************************************************)
(* The resolution engine's claims (specification SpecResolve).             *)
(***************************************************************************)

\* the scopes above element: its container, the container's container, ...
RECURSIVE AncestorScopes(_)
AncestorScopes(element) ==
  IF Container(element) = element THEN {}
  ELSE {Container(element)} \cup AncestorScopes(Container(element))

\* the declarations cached for a scope
Declarations(scope) ==
  IF partData[scope].kind = "array"
  THEN {partData[scope].parts[k] : k \in 1..Len(partData[scope].parts)}
  ELSE {}

\* the latest call was a call of propsForPart(name, node, requireTheme) on a
\* node below the top of its tree
Resolved(requireTheme) ==
  /\ call.made
  /\ call.requireTheme = requireTheme
  /\ Container(call.element) # call.element

\* what the immediate container's declarations give the node of the latest call
OwnProps ==
  propsFromElement(Cur, call.name, Container(call.element), call.element,
                   FALSE).val

\* what the ::theme declarations of the scopes further up give it
ThemeProps == propsForPart(Cur, call.name, Container(call.element), TRUE).val

\* the properties both sources supply in the same bucket
Conflicts ==
  IF OwnProps.def /\ ThemeProps.def
  THEN {<<b, p>> \in UNION {{<<b, q>> : q \in DOMAIN OwnProps.map[b]} :
                              b \in DOMAIN OwnProps.map} :
          b \in DOMAIN ThemeProps.map /\ p \in DOMAIN ThemeProps.map[b]}
  ELSE {}

\* C1 as stated: where the immediate container and a ::theme declaration of
\* a further ancestor supply the same property in the same bucket, the
\* resolved value is the reference built from the immediate container's id.
C1_NearerWins ==
  (Resolved(FALSE) /\ call.ex = "none") =>
    \A c \in Conflicts :
      call.val.map[c[1]][c[2]] =
        VarRef(partIdOf[Container(call.element)].v, call.name, c[2], c[1])

\* C2: every property of the result of a theme-only call is the reference
\* to a ::theme declaration of that part in a scope above the node, and the
\* call follows no partmap forwarding.
C2_ThemeIsolation ==
  Resolved(TRUE) =>
    /\ forwards = <<>>
    /\ call.val.def =>
         \A b \in DOMAIN call.val.map : \A p \in DOMAIN call.val.map[b] :
           \E scope \in AncestorScopes(call.element) :
             \E part \in Declarations(scope) :
               /\ part.isTheme
               /\ part.name = call.name
               /\ part.endSelector = b
               /\ p \in DOMAIN part.props
               /\ call.val.map[b][p] = VarRef(partIdOf[scope].v, call.name, p, b)

\* C2 witness: a theme-only call on a node with a partmap has returned
\* properties, while a scope above the node holds a declaration of the part
\* that is no ::theme declaration.
C2_Witness ==
  /\ Resolved(TRUE)
  /\ call.ex = "none"
  /\ call.val.def
  /\ dom.partmap[call.element] # <<>>
  /\ \E scope \in AncestorScopes(call.element) :
       \E part \in Declarations(scope) : ~part.isTheme /\ part.name = call.name

\* the forwarded resolutions the latest call made itself (those of the
\* calls it made are logged with their own element)
FirstLevel == SelectSeq(forwards, LAMBDA f : f.element = call.element)

\* the entries of a partmap attribute, as the tokens [m1, m2] of each piece
PartmapEntries(partmap) ==
  {PartmapMatch(Pieces(partmap)[k]) : k \in 1..Len(Pieces(partmap))}

HasStar(s) == \E k \in 1..Len(s) : s[k] = "*"

\* s with its first "*" replaced by the text t
StarReplacedBy(s, t) ==
  IF HasStar(s)
  THEN LET i == MinOf({k \in 1..Len(s) : s[k] = "*"})
       IN  SubSeq(s, 1, i - 1) \o t \o SubSeq(s, i + 1, Len(s))
  ELSE s

\* the names to which the wildcard entries of a partmap (first token with a
\* "*", and a second token) forward the part name
WildcardTargets(partmap, name) ==
  { StarReplacedBy(m.m2, name) :
      m \in { e \in PartmapEntries(partmap) :
                e.matched /\ e.m2 # NoString /\ HasStar(e.m1) } }

\* what the resolution of the part t one scope further up finds
Forwarded(t) == propsForPart(Cur, t, Container(call.element), FALSE).val

\* the properties of props are properties of the result of the latest call
Merged(props) ==
  props.def =>
    /\ call.val.def
    /\ \A b \in DOMAIN props.map :
         /\ b \in DOMAIN call.val.map
         /\ DOMAIN props.map[b] \subseteq DOMAIN call.val.map[b]

\* the entries of a partmap attribute that forward the requested name: those
\* whose forward equals it or holds a "*", in the order of the attribute
Asked(partmap) ==
  SelectSeq(partInfoFromPartmap(partmap),
            LAMBDA info : call.name = info.forward \/ catchAll(info))

\* C7 as stated: for every wildcard entry of the partmap a non-theme call
\* consults and every requested name, the call has resolved, one scope
\* further up, the part named by the entry's second token with its first
\* "*" replaced by the requested name, and the properties found for that
\* part are in the result.
C7_ForwardingWildcard ==
  (Resolved(FALSE) /\ call.ex = "none") =>
    \A t \in WildcardTargets(dom.partmap[call.element], call.name) :
      /\ \E k \in 1..Len(FirstLevel) :
           /\ FirstLevel[k].ancestorName = t
           /\ FirstLevel[k].container = Container(call.element)
      /\ Merged(Forwarded(t))

\* the forwarded resolutions the entries of a partmap attribute ask of the
\* latest call: one for each entry whose forward equals the requested name
\* or holds a "*", in the order of the attribute
ExpectedForwards(partmap) ==
  [k \in 1..Len(Asked(partmap)) |->
     [element |-> call.element, name |-> call.name,
      ancestorName |-> ancestorNameFor(Asked(partmap)[k], call.name),
      container |-> Container(call.element)]]

IsPrefix(a, b) == Len(a) <= Len(b) /\ a = SubSeq(b, 1, Len(a))

\* C10 as stated: the forwarded resolutions of a non-theme call are those
\* of the entries of the container's partmap attribute.
C10_ForwardsFromContainer ==
  (Resolved(FALSE) /\ call.ex = "none") =>
    FirstLevel = ExpectedForwards(dom.partmap[Container(call.element)])

\* C10 (amended): the forwarded resolutions of a non-theme call are those
\* of the entries of the node's own partmap attribute, made against the
\* container in the order of the attribute (all of them when the call
\* returns); a partmap attribute set only on the container triggers none.
C10_ForwardsFromNode ==
  Resolved(FALSE) =>
    /\ IsPrefix(FirstLevel, ExpectedForwards(dom.partmap[call.element]))
    /\ call.ex = "none" =>
         FirstLevel = ExpectedForwards(dom.partmap[call.element])
    /\ dom.partmap[call.element] = <<>> => FirstLevel = <<>>

\* C10 witness: a call on a node with a partmap attribute, below a container
\* without one, has returned after forwarded resolutions.
C10_Witness ==
  /\ Resolved(FALSE)
  /\ call.ex = "none"
  /\ dom.partmap[call.element] # <<>>
  /\ dom.partmap[Container(call.element)] = <<>>
  /\ FirstLevel # <<>>

====
